---- MODULE Spec2Model ----
(***************************************************************************)
(* Model of assets/layouts/convertuiJsonChildToMultipleJson.py: a script   *)
(* that splits the children of layout.children of one JSON document into   *)
(* one JSON file per child, named after the child.                         *)
(*                                                                         *)
(* JSON values (what json.load returns) are tagged pairs:                  *)
(*   <<"null", 0>>  <<"bool", b>>  <<"num", n>>  <<"str", chars>>         *)
(*   <<"arr", <<v1, ...>>>>  <<"obj", << <<key, v>>, ... >>>>             *)
(* Text is a sequence of one-character strings, so that the code's         *)
(* per-character filtering and its substring tests are computed.           *)
(***************************************************************************)
EXTENDS Integers, Sequences, FiniteSets, TLC

VARIABLES pc, input, dirExists, files, data, named_children, idx, attempts,
          failed, result, exc, exitCode, obj, resolved, name, safe_name

vars == <<pc, input, dirExists, files, data, named_children, idx, attempts,
          failed, result, exc, exitCode, obj, resolved, name, safe_name>>

mainVars == <<input, dirExists, files, data, named_children, idx, attempts,
              failed, result, exc, exitCode>>

(***************************************************************************)
(* Bounds of the model.                                                    *)
(***************************************************************************)
MaxChildren == 2
MaxNameLen == 3
MaxDepth == 2

(***************************************************************************)
(* JSON values.                                                            *)
(***************************************************************************)
None == <<"null", 0>>
Num(n) == <<"num", n>>
Text(s) == <<"str", s>>
Arr(s) == <<"arr", s>>
Obj(s) == <<"obj", s>>
Tag(v) == v[1]
IsDict(v) == Tag(v) = "obj"
IsList(v) == Tag(v) = "arr"
IsStr(v) == Tag(v) = "str"

\* The text of the keys the documents of the model use.
KeyText(k) ==
    CASE k = "layout" -> <<"l", "a", "y", "o", "u", "t">>
      [] k = "children" -> <<"c", "h", "i", "l", "d", "r", "e", "n">>
      [] k = "params" -> <<"p", "a", "r", "a", "m", "s">>
      [] k = "name" -> <<"n", "a", "m", "e">>
      [] OTHER -> <<"k">>

\* k in d, d[k] for a dict d
Has(d, k) == \E j \in 1..Len(d[2]) : d[2][j][1] = k
Get(d, k) == d[2][CHOOSE j \in 1..Len(d[2]) : d[2][j][1] = k][2]

\* Python truth value of a JSON value: `if name:`
Truthy(v) ==
    CASE Tag(v) = "null" -> FALSE
      [] Tag(v) = "bool" -> v[2]
      [] Tag(v) = "num" -> v[2] # 0
      [] OTHER -> Len(v[2]) > 0

IsSubstring(s, t) ==
    \E k \in 0..(Len(t) - Len(s)) : \A j \in 1..Len(s) : t[k + j] = s[j]

(***************************************************************************)
(* Characters: str.isalnum() and whitespace, per character.                *)
(***************************************************************************)
Letters == {"a", "b", "x", "A", "B", "X", "M", "y", "u", "t", "o", "n",
            "c", "h", "i", "l", "d", "e", "r", "k", "p", "m", "s", "j"}
DigitSeq == <<"0", "1", "2", "3", "4", "5", "6", "7", "8", "9">>
DigitChars == {DigitSeq[k] : k \in 1..Len(DigitSeq)}
Whitespace == {" "}
IsAlnum(c) == c \in Letters \cup DigitChars

\* str(i) for i >= 0, as in the f-string f"child_{i}"
RECURSIVE Str(_)
Str(i) == IF i < Len(DigitSeq) THEN <<DigitSeq[i + 1]>>
          ELSE Str(i \div Len(DigitSeq)) \o <<DigitSeq[(i % Len(DigitSeq)) + 1]>>

ChildPrefix == <<"c", "h", "i", "l", "d", "_">>
JsonSuffix == <<".", "j", "s", "o", "n">>
Unnamed == <<"u", "n", "n", "a", "m", "e", "d">>

(***************************************************************************)
(* extract_name_from_object                                                *)
(***************************************************************************)
RECURSIVE extract_name_from_object(_), FirstChildName(_, _)
extract_name_from_object(o) ==
    IF IsDict(o)
    THEN IF Has(o, "params") /\ IsDict(Get(o, "params"))
              /\ Has(Get(o, "params"), "name")
         THEN Get(Get(o, "params"), "name")
         ELSE IF Has(o, "name")
         THEN Get(o, "name")
         ELSE IF Has(o, "children") /\ IsList(Get(o, "children"))
         THEN FirstChildName(Get(o, "children")[2], 1)
         ELSE None
    ELSE None

\* the loop `for child in obj['children']` from position k on
FirstChildName(kids, k) ==
    IF k > Len(kids) THEN None
    ELSE LET n == extract_name_from_object(kids[k])
         IN IF Truthy(n) THEN n ELSE FirstChildName(kids, k + 1)

(***************************************************************************)
(* find_named_children: children is the sequence enumerate() yields.       *)
(***************************************************************************)
FallbackName(i) == Text(ChildPrefix \o Str(i))

NamedChild(i, child) ==
    LET n == extract_name_from_object(child)
    IN IF Truthy(n) THEN <<n, child>> ELSE <<FallbackName(i), child>>

find_named_children(children) ==
    [k \in 1..Len(children) |-> NamedChild(k - 1, children[k])]

(***************************************************************************)
(* Filename sanitising (lines 76-81).  The result is [raised, text]:       *)
(* raised when iterating the name or calling isalnum on an item raises.    *)
(***************************************************************************)
Iterable(v) == Tag(v) \in {"str", "arr", "obj"}

\* what `for c in name` yields
IterItems(v) ==
    CASE Tag(v) = "str" -> [k \in 1..Len(v[2]) |-> Text(<<v[2][k]>>)]
      [] Tag(v) = "arr" -> v[2]
      [] Tag(v) = "obj" -> [k \in 1..Len(v[2]) |-> Text(KeyText(v[2][k][1]))]
      [] OTHER -> <<>>

\* a filter that also lets dots and path separators through
KeepItemPath(c) ==
    \/ Len(c[2]) > 0 /\ \A k \in 1..Len(c[2]) : IsAlnum(c[2][k])
    \/ c[2] \in {<<"-">>, <<"_">>, <<".">>, <<"/">>}

\* c.isalnum() or c in ('-', '_'), for a str c
KeepItem(c) ==
    \/ Len(c[2]) > 0 /\ \A k \in 1..Len(c[2]) : IsAlnum(c[2][k])
    \/ c[2] = <<"-">>
    \/ c[2] = <<"_">>

RECURSIVE FilterJoin(_)
FilterJoin(items) ==
    IF items = <<>> THEN <<>>
    ELSE (IF KeepItem(Head(items)) THEN Head(items)[2] ELSE <<>>)
         \o FilterJoin(Tail(items))

RECURSIVE rstrip(_)
rstrip(s) ==
    IF s # <<>> /\ s[Len(s)] \in Whitespace
    THEN rstrip(SubSeq(s, 1, Len(s) - 1))
    ELSE s

\* the sanitiser without the substitute for an empty result
SafeNameNoFallback(n) ==
    IF ~Iterable(n) \/ \E k \in 1..Len(IterItems(n)) : ~IsStr(IterItems(n)[k])
    THEN [raised |-> TRUE, text |-> <<>>]
    ELSE [raised |-> FALSE, text |-> rstrip(FilterJoin(IterItems(n)))]

SafeName(n) ==
    IF ~Iterable(n) \/ \E k \in 1..Len(IterItems(n)) : ~IsStr(IterItems(n)[k])
    THEN [raised |-> TRUE, text |-> <<>>]
    ELSE LET s == rstrip(FilterJoin(IterItems(n)))
         IN [raised |-> FALSE, text |-> IF s = <<>> THEN Unnamed ELSE s]

Filename(n) == SafeName(n).text \o JsonSuffix

(***************************************************************************)
(* JSON text.  A file's content is the sequence of tokens of its text:     *)
(* punctuation <<"p", c>>, strings <<"s", chars>>, numbers <<"n", n>>,     *)
(* literals <<"lit", w>>, and the newline-plus-indent <<"ws", depth>> that  *)
(* indent=2 writes.  Dump is json.dump(.., indent=2, ensure_ascii=False),  *)
(* Load is json.load.                                                      *)
(***************************************************************************)
Keys == {"layout", "children", "params", "name", "k"}
KeyOf(t) == CHOOSE k \in Keys : KeyText(k) = t
P(c) == <<"p", c>>
Ws(d) == <<"ws", d>>

RECURSIVE Dump(_, _), DumpItems(_, _, _), DumpMembers(_, _, _)
Dump(v, d) ==
    CASE Tag(v) = "null" -> << <<"lit", "null">> >>
      [] Tag(v) = "bool" -> << <<"lit", IF v[2] THEN "true" ELSE "false">> >>
      [] Tag(v) = "num" -> << <<"n", v[2]>> >>
      [] Tag(v) = "str" -> << <<"s", v[2]>> >>
      [] Tag(v) = "arr" ->
           IF v[2] = <<>> THEN <<P("["), P("]")>>
           ELSE <<P("[")>> \o DumpItems(v[2], 1, d + 1) \o <<Ws(d), P("]")>>
      [] Tag(v) = "obj" ->
           IF v[2] = <<>> THEN <<P("{"), P("}")>>
           ELSE <<P("{")>> \o DumpMembers(v[2], 1, d + 1) \o <<Ws(d), P("}")>>

DumpItems(s, k, d) ==
    <<Ws(d)>> \o Dump(s[k], d)
    \o (IF k = Len(s) THEN <<>> ELSE <<P(",")>> \o DumpItems(s, k + 1, d))

DumpMembers(s, k, d) ==
    <<Ws(d), <<"s", KeyText(s[k][1])>>, P(":")>> \o Dump(s[k][2], d)
    \o (IF k = Len(s) THEN <<>> ELSE <<P(",")>> \o DumpMembers(s, k + 1, d))

ParseFail == [ok |-> FALSE, val |-> None, next |-> 0]
ParseOk(v, p) == [ok |-> TRUE, val |-> v, next |-> p]

\* the first position from p on that holds no whitespace
SkipWs(toks, p) ==
    CHOOSE q \in p..(Len(toks) + 1) :
        /\ \A j \in p..(q - 1) : toks[j][1] = "ws"
        /\ q <= Len(toks) => toks[q][1] # "ws"

At(toks, p, t) == p <= Len(toks) /\ toks[p] = t

\* d[k] = v on the member sequence of a dict: a repeated key keeps its place
SetMember(ms, k, v) ==
    IF \E j \in 1..Len(ms) : ms[j][1] = k
    THEN [j \in 1..Len(ms) |-> IF ms[j][1] = k THEN <<k, v>> ELSE ms[j]]
    ELSE Append(ms, <<k, v>>)

RECURSIVE ParseValue(_, _), ParseItems(_, _, _), ParseMembers(_, _, _)
ParseValue(toks, p0) ==
    LET p == SkipWs(toks, p0)
    IN IF p > Len(toks) THEN ParseFail
       ELSE LET t == toks[p]
            IN CASE t[1] = "lit" ->
                      ParseOk(IF t[2] = "null" THEN None
                              ELSE <<"bool", t[2] = "true">>, p + 1)
                 [] t[1] = "n" -> ParseOk(Num(t[2]), p + 1)
                 [] t[1] = "s" -> ParseOk(Text(t[2]), p + 1)
                 [] t = P("[") ->
                      IF At(toks, SkipWs(toks, p + 1), P("]"))
                      THEN ParseOk(Arr(<<>>), SkipWs(toks, p + 1) + 1)
                      ELSE ParseItems(toks, p + 1, <<>>)
                 [] t = P("{") ->
                      IF At(toks, SkipWs(toks, p + 1), P("}"))
                      THEN ParseOk(Obj(<<>>), SkipWs(toks, p + 1) + 1)
                      ELSE ParseMembers(toks, p + 1, <<>>)
                 [] OTHER -> ParseFail

ParseItems(toks, p, acc) ==
    LET r == ParseValue(toks, p)
    IN IF ~r.ok THEN ParseFail
       ELSE LET q == SkipWs(toks, r.next)
            IN IF At(toks, q, P(","))
               THEN ParseItems(toks, q + 1, Append(acc, r.val))
               ELSE IF At(toks, q, P("]"))
               THEN ParseOk(Arr(Append(acc, r.val)), q + 1)
               ELSE ParseFail

ParseMembers(toks, p, acc) ==
    LET k == SkipWs(toks, p)
        c == SkipWs(toks, k + 1)
    IN IF ~(k <= Len(toks) /\ toks[k][1] = "s" /\ At(toks, c, P(":")))
       THEN ParseFail
       ELSE LET r == ParseValue(toks, c + 1)
            IN IF ~r.ok THEN ParseFail
               ELSE LET q == SkipWs(toks, r.next)
                        ms == SetMember(acc, KeyOf(toks[k][2]), r.val)
                    IN IF At(toks, q, P(","))
                       THEN ParseMembers(toks, q + 1, ms)
                       ELSE IF At(toks, q, P("}"))
                       THEN ParseOk(Obj(ms), q + 1)
                       ELSE ParseFail

Load(toks) ==
    LET r == ParseValue(toks, 1)
    IN IF r.ok /\ SkipWs(toks, r.next) > Len(toks)
       THEN [ok |-> TRUE, val |-> r.val]
       ELSE [ok |-> FALSE, val |-> None]

(***************************************************************************)
(* Paths: a path is the sequence of its components.                        *)
(***************************************************************************)
OutDir == << <<"o", "u", "t">> >>

RECURSIVE SplitPath(_, _)
\* the components of text s, cur being the component read so far
SplitPath(s, cur) ==
    IF s = <<>> THEN (IF cur \in {<<>>, <<".">>} THEN <<>> ELSE <<cur>>)
    ELSE IF Head(s) = "/"
    THEN (IF cur \in {<<>>, <<".">>} THEN <<>> ELSE <<cur>>)
         \o SplitPath(Tail(s), <<>>)
    ELSE SplitPath(Tail(s), Append(cur, Head(s)))

RECURSIVE ResolveDots(_, _)
\* the file the operating system opens: ".." leaves a directory
ResolveDots(comps, acc) ==
    IF comps = <<>> THEN acc
    ELSE IF Head(comps) = <<".", ".">>
    THEN ResolveDots(Tail(comps),
                     IF acc = <<>> THEN acc ELSE SubSeq(acc, 1, Len(acc) - 1))
    ELSE ResolveDots(Tail(comps), Append(acc, Head(comps)))

\* output_path / filename
FilePath(dir, filename) ==
    IF filename # <<>> /\ Head(filename) = "/"
    THEN ResolveDots(SplitPath(filename, <<>>), <<>>)
    ELSE ResolveDots(dir \o SplitPath(filename, <<>>), <<>>)

\* the child written without the layout.children wrapper
ChildDataBare(child) == child

\* child_data of lines 85-89
ChildData(child) == Obj(<< <<"layout", Obj(<< <<"children", Arr(<<child>>)>> >>)>> >>)

(***************************************************************************)
(* Inputs of the model.                                                    *)
(***************************************************************************)
BoundedSeqs(S, n) == UNION {[1..k -> S] : k \in 0..n}

Member(k, v) == << <<k, v>> >>
NameA == Text(<<"A">>)
NameB == Text(<<"B">>)
NameX == Text(<<"X">>)
Empty == Text(<<>>)

\* children of layout.children the converter is run on
ChildSamples ==
    { Obj(Member("params", Obj(Member("name", NameA))) \o Member("name", NameB)),
      Obj(Member("name", Text(<<"A", "!">>))),
      Obj(Member("name", Empty) \o Member("children", Arr(<<Obj(Member("name", NameX))>>))),
      Obj(Member("children", Arr(<<Obj(<<>>), Obj(Member("name", NameB))>>))),
      Num(7),
      Obj(<<>>),
      Obj(Member("name", Obj(Member("k", Num(1))))),
      Obj(Member("name", Text(ChildPrefix \o <<"1">>))),
      Obj(Member("params", Obj(Member("name", Num(5)))) \o Member("name", NameB)),
      Obj(Member("name", Text(<<".", ".", "/", "x">>))),
      Obj(Member("name", Arr(<<Text(<<"a", "/", "b">>), Text(<<"a", "b">>), Text(<<"-">>)>>))) }

Doc(children) == Obj(Member("layout", Obj(Member("children", children))))

ValidDocs == {Doc(Arr(s)) : s \in BoundedSeqs(ChildSamples, MaxChildren)}

\* documents without layout.children, or with a value of another shape there
OddDocs ==
    { Num(5), None, Text(KeyText("layout")), Arr(<<>>),
      Arr(<<Text(KeyText("layout"))>>), Obj(<<>>),
      Obj(Member("layout", Num(5))),
      Obj(Member("layout", Arr(<<>>))),
      Obj(Member("layout", Arr(<<Text(KeyText("children"))>>))),
      Obj(Member("layout", Text(KeyText("children")))),
      Obj(Member("layout", Obj(<<>>))),
      Obj(Member("k", Num(1))),
      Doc(Text(<<"a", "b">>)), Doc(Obj(Member("k", Num(1)))), Doc(Num(5)), Doc(None) }

MissingInput == [exists |-> FALSE, decodable |-> FALSE, toks |-> <<>>]
UndecodableInput == [exists |-> TRUE, decodable |-> FALSE, toks |-> <<>>]
JsonInput(toks) == [exists |-> TRUE, decodable |-> TRUE, toks |-> toks]

\* texts json.load rejects: an empty file, an unclosed object, trailing text
BadTexts == { <<>>, <<P("{"), <<"s", <<"b">>>>>>, <<P("{"), P("}"), P("}")>> }

Inputs ==
    {MissingInput, UndecodableInput}
    \cup {JsonInput(t) : t \in BadTexts}
    \cup {JsonInput(Dump(d, 0)) : d \in ValidDocs \cup OddDocs}

NoFiles == [p \in {} |-> <<>>]
StalePath == OutDir \o << <<"A">> \o JsonSuffix >>
StaleText == Dump(ChildData(Num(0)), 0)
\* a file next to the output directory, which no run may touch
OutsidePath == << <<"x">> \o JsonSuffix >>
StaleFiles == [p \in {StalePath, OutsidePath} |-> StaleText]

\* the output directory before the run: absent, or there with an old file
InitialDirs == { [exists |-> FALSE, files |-> NoFiles],
                 [exists |-> TRUE, files |-> StaleFiles] }

(***************************************************************************)
(* convert_ui_json_to_multiple_files and main, one step per statement      *)
(* group.  pc is the position of the process.                              *)
(***************************************************************************)
IdlePure ==
    /\ obj = None
    /\ resolved = None
    /\ name = Empty
    /\ safe_name = [raised |-> FALSE, text |-> <<>>]

Init ==
    /\ pc = "start"
    /\ input \in Inputs
    /\ \E d \in InitialDirs : dirExists = d.exists /\ files = d.files
    /\ data = None
    /\ named_children = <<>>
    /\ idx = 0
    /\ attempts = <<>>
    /\ failed = {}
    /\ result = FALSE
    /\ exc = "none"
    /\ exitCode = -1
    /\ IdlePure

Return(r) == pc' = "returned" /\ result' = r
Raise(e) == pc' = "raised" /\ exc' = e

\* lines 50-58: open, json.load and the two except clauses
Read ==
    /\ pc = "start"
    /\ IF ~input.exists
       THEN Return(FALSE) /\ UNCHANGED <<data, exc>>
       ELSE IF ~input.decodable
       THEN Raise("UnicodeDecodeError") /\ UNCHANGED <<data, result>>
       ELSE IF ~Load(input.toks).ok
       THEN Return(FALSE) /\ UNCHANGED <<data, exc>>
       ELSE /\ pc' = "mkdir"
            /\ data' = Load(input.toks).val
            /\ UNCHANGED <<result, exc>>
    /\ UNCHANGED <<input, dirExists, files, named_children, idx, attempts,
                   failed, exitCode, obj, resolved, name, safe_name>>

\* lines 61-62: output_path.mkdir(parents=True, exist_ok=True)
Mkdir ==
    /\ pc = "mkdir"
    /\ dirExists' = TRUE
    /\ pc' = "check"
    /\ UNCHANGED <<input, files, data, named_children, idx, attempts, failed,
                   result, exc, exitCode, obj, resolved, name, safe_name>>

\* `k in v`: a TypeError for a value that is no container
CanContain(v) == Tag(v) \in {"str", "arr", "obj"}
Contains(v, k) ==
    CASE Tag(v) = "obj" -> Has(v, k)
      [] Tag(v) = "arr" -> \E j \in 1..Len(v[2]) : v[2][j] = Text(KeyText(k))
      [] Tag(v) = "str" -> IsSubstring(KeyText(k), v[2])
      [] OTHER -> FALSE

\* lines 65-70: the layout.children test and find_named_children
Check ==
    /\ pc = "check"
    /\ IF ~CanContain(data)
       THEN Raise("TypeError") /\ UNCHANGED <<result, named_children, idx>>
       ELSE IF ~Contains(data, "layout")
       THEN Return(FALSE) /\ UNCHANGED <<exc, named_children, idx>>
       ELSE IF ~IsDict(data) \/ ~CanContain(Get(data, "layout"))
       THEN Raise("TypeError") /\ UNCHANGED <<result, named_children, idx>>
       ELSE IF ~Contains(Get(data, "layout"), "children")
       THEN Return(FALSE) /\ UNCHANGED <<exc, named_children, idx>>
       ELSE IF ~IsDict(Get(data, "layout"))
               \/ ~Iterable(Get(Get(data, "layout"), "children"))
       THEN Raise("TypeError") /\ UNCHANGED <<result, named_children, idx>>
       ELSE /\ named_children' =
                 find_named_children(IterItems(Get(Get(data, "layout"), "children")))
            /\ idx' = 1
            /\ pc' = "loop"
            /\ UNCHANGED <<result, exc>>
    /\ UNCHANGED <<input, dirExists, files, data, attempts, failed, exitCode,
                   obj, resolved, name, safe_name>>

WriteOutcomes == {"ok", "open_fails", "dump_fails"}

\* a write that leaves a file that is already there as it is
WrittenKeepFirst(fs, path, text, outcome) ==
    IF outcome = "ok" /\ path \notin DOMAIN fs
    THEN [p \in DOMAIN fs \cup {path} |-> IF p = path THEN text ELSE fs[p]]
    ELSE fs

\* what a write leaves on disk
Written(fs, path, text, outcome) ==
    CASE outcome = "ok" ->
           [p \in DOMAIN fs \cup {path} |-> IF p = path THEN text ELSE fs[p]]
      [] outcome = "dump_fails" ->
           [p \in DOMAIN fs \cup {path} |->
               IF p = path THEN SubSeq(text, 1, Len(text) \div 2) ELSE fs[p]]
      [] OTHER -> fs

\* lines 75-97: one iteration of the loop over named_children
WriteChild ==
    /\ pc = "loop"
    /\ idx <= Len(named_children)
    /\ LET n == named_children[idx][1]
           child == named_children[idx][2]
       IN IF SafeName(n).raised
          THEN /\ Raise("TypeError")
               /\ UNCHANGED <<files, attempts, failed, idx>>
          ELSE \E outcome \in WriteOutcomes :
                 LET path == FilePath(OutDir, Filename(n))
                 IN /\ files' = Written(files, path, Dump(ChildData(child), 0), outcome)
                    /\ attempts' = Append(attempts, path)
                    /\ failed' = IF outcome = "ok" THEN failed ELSE failed \cup {idx}
                    /\ idx' = idx + 1
                    /\ UNCHANGED <<pc, exc>>
    /\ UNCHANGED <<input, dirExists, data, named_children, result, exitCode,
                   obj, resolved, name, safe_name>>

\* lines 99-100: the loop is over
Finish ==
    /\ pc = "loop"
    /\ idx > Len(named_children)
    /\ Return(TRUE)
    /\ UNCHANGED <<input, dirExists, files, data, named_children, idx,
                   attempts, failed, exc, exitCode, obj, resolved, name, safe_name>>

\* main, lines 118-124, and the interpreter's handling of an exception
\* that nothing catches
Exit ==
    /\ pc \in {"returned", "raised"}
    /\ pc' = IF pc = "raised" THEN "crashed" ELSE "exited"
    /\ exitCode' = IF pc = "returned" /\ result THEN 0 ELSE 1
    /\ UNCHANGED <<input, dirExists, files, data, named_children, idx,
                   attempts, failed, result, exc, obj, resolved, name, safe_name>>

Next == Read \/ Mkdir \/ Check \/ WriteChild \/ Finish \/ Exit

Spec == Init /\ [][Next]_vars

(***************************************************************************)
(* The filename sanitiser alone: every text up to MaxNameLen characters    *)
(* over SanChars, and the sample of the documentation.                     *)
(***************************************************************************)
SanChars == {"a", "1", "-", "_", " ", "!", "/", "."}
MyButton == <<"M", "y", " ", "B", "u", "t", "t", "o", "n", "!", "#", "1">>
TextNames == {Text(s) : s \in BoundedSeqs(SanChars, MaxNameLen) \cup {MyButton}}

IdleMain ==
    /\ input = MissingInput
    /\ dirExists = FALSE
    /\ files = NoFiles
    /\ data = None
    /\ named_children = <<>>
    /\ idx = 0
    /\ attempts = <<>>
    /\ failed = {}
    /\ result = FALSE
    /\ exc = "none"
    /\ exitCode = -1

InitSanitize ==
    /\ pc = "sanitize"
    /\ name \in TextNames
    /\ safe_name = [raised |-> FALSE, text |-> <<>>]
    /\ obj = None
    /\ resolved = None
    /\ IdleMain

\* lines 77-79 applied to name
Sanitize ==
    /\ pc = "sanitize"
    /\ safe_name' = SafeName(name)
    /\ pc' = "sanitized"
    /\ UNCHANGED <<mainVars, obj, resolved, name>>

SpecSanitize == InitSanitize /\ [][Sanitize]_vars

(***************************************************************************)
(* The name resolver alone, on objects nested up to MaxDepth levels.       *)
(***************************************************************************)
ParamsNames == {Empty, NameA, Num(5), Num(0)}
OwnNames == {Empty, NameB, None}
ParamsOpts ==
    {<<>>, Member("params", Num(5)), Member("params", Obj(<<>>))}
    \cup {Member("params", Obj(Member("name", v))) : v \in ParamsNames}
NameOpts == {<<>>} \cup {Member("name", v) : v \in OwnNames}

\* objects without a children list
Leaves ==
    {Obj(p \o n) : p \in ParamsOpts, n \in NameOpts}
    \cup {Num(7), Obj(Member("children", NameX))}

\* the fields of an object that has a children list
ParentOpts ==
    {<<>>, Member("name", Empty), Member("params", Obj(<<>>)),
     Member("params", Obj(Member("name", NameA)))}
\* entries the search passes over before it reaches a later entry
PassedOver == {Obj(<<>>), Obj(Member("name", Empty))}

RECURSIVE Objects(_)
Objects(d) ==
    IF d = 0 THEN Leaves
    ELSE LET below == Objects(d - 1)
             lists == {<<>>} \cup {<<x>> : x \in below}
                      \cup {<<e, x>> : e \in PassedOver, x \in below}
         IN below \cup {Obj(o \o Member("children", Arr(l))) :
                            o \in ParentOpts, l \in lists}

InitResolve ==
    /\ pc = "resolve"
    /\ obj \in Objects(MaxDepth)
    /\ resolved = None
    /\ name = Empty
    /\ safe_name = [raised |-> FALSE, text |-> <<>>]
    /\ IdleMain

\* name = extract_name_from_object(obj)
Resolve ==
    /\ pc = "resolve"
    /\ resolved' = extract_name_from_object(obj)
    /\ pc' = "resolved"
    /\ UNCHANGED <<mainVars, obj, name, safe_name>>

SpecResolve == InitResolve /\ [][Resolve]_vars

(***************************************************************************)
(* Properties.                                                             *)
(***************************************************************************)
SafeChar(c) == IsAlnum(c) \/ c \in {"-", "_"}
KeptChars(s) == SelectSeq(s, SafeChar)

\* C4: the sanitised form of a text name is the subsequence of its
\* alphanumeric, hyphen and underscore characters in their order, or
\* "unnamed" when that subsequence is empty; it is never empty and holds no
\* other character.
C4_Sanitized ==
    pc = "sanitized" =>
        /\ ~safe_name.raised
        /\ safe_name.text = IF KeptChars(name[2]) = <<>> THEN Unnamed
                       ELSE KeptChars(name[2])
        /\ safe_name.text # <<>>
        /\ \A k \in 1..Len(safe_name.text) : SafeChar(safe_name.text[k])

C4_Witness ==
    /\ pc = "sanitized"
    /\ name = Text(MyButton)
    /\ safe_name.text = <<"M", "y", "B", "u", "t", "t", "o", "n", "1">>

\* The resolution order as C2 words it: params.name only when it is text.
RECURSIVE ClaimedName(_), ClaimedFirst(_, _)
ClaimedName(o) ==
    IF ~IsDict(o) THEN None
    ELSE IF Has(o, "params") /\ IsDict(Get(o, "params"))
            /\ Has(Get(o, "params"), "name")
            /\ IsStr(Get(Get(o, "params"), "name"))
    THEN Get(Get(o, "params"), "name")
    ELSE IF Has(o, "name") THEN Get(o, "name")
    ELSE IF Has(o, "children") /\ IsList(Get(o, "children"))
    THEN ClaimedFirst(Get(o, "children")[2], 1)
    ELSE None

ClaimedFirst(kids, k) ==
    IF k > Len(kids) THEN None
    ELSE IF Truthy(ClaimedName(kids[k])) THEN ClaimedName(kids[k])
    ELSE ClaimedFirst(kids, k + 1)

\* C2: the resolved name is params.name when params is a mapping with a text
\* under name, otherwise the top-level name, otherwise the first non-empty
\* name the entries of children resolve to; a params.name that is not text
\* leaves the top-level name.
C2_ResolutionOrder ==
    pc = "resolved" => resolved = ClaimedName(obj)

(***************************************************************************)
(* Properties of the converter.                                            *)
(***************************************************************************)
\* layout.children is there, layout a mapping and children a sequence
ValidDoc(d) ==
    /\ IsDict(d) /\ Has(d, "layout")
    /\ IsDict(Get(d, "layout")) /\ Has(Get(d, "layout"), "children")
    /\ IsList(Get(Get(d, "layout"), "children"))

\* find_named_children has run
Listed == idx >= 1
\* the sequence it ran on
Children == IterItems(Get(Get(data, "layout"), "children"))
Succeeded == pc \in {"returned", "exited"} /\ result

\* the file the child at position k is written to
PathOf(k) == OutDir \o <<SafeName(named_children[k][1]).text \o JsonSuffix>>
Produced == {attempts[k] : k \in 1..Len(attempts)}
RoundTrip(p, child) ==
    /\ p \in DOMAIN files
    /\ Load(files[p]) = [ok |-> TRUE, val |-> Doc(Arr(<<child>>))]

DistinctNames ==
    \A j, k \in 1..Len(named_children) :
        j # k => SafeName(named_children[j][1]).text
                 # SafeName(named_children[k][1]).text

\* C1: a valid document with N children of pairwise distinct sanitised
\* names, every write succeeding, leaves N files, and the file of the i-th
\* child reads back as {"layout": {"children": [c]}} with c the i-th child.
C1_OneFilePerChild ==
    (Succeeded /\ ValidDoc(data) /\ failed = {} /\ DistinctNames) =>
        /\ Len(attempts) = Len(Children)
        /\ Cardinality(Produced) = Len(Children)
        /\ Produced \subseteq DOMAIN files
        /\ DOMAIN files \ {StalePath, OutsidePath} \subseteq Produced
        /\ \A k \in 1..Len(Children) :
              PathOf(k) \in Produced /\ RoundTrip(PathOf(k), Children[k])

C1_Witness ==
    /\ Succeeded /\ ValidDoc(data) /\ failed = {} /\ DistinctNames
    /\ Len(Children) = 2
    /\ Cardinality(Produced) = 2
    /\ StalePath \in Produced
    /\ files[StalePath] # StaleText

\* a non-empty name stands in the object or in one of its descendants
RECURSIVE NamePresent(_)
NamePresent(o) ==
    /\ IsDict(o)
    /\ \/ Has(o, "name") /\ Truthy(Get(o, "name"))
       \/ Has(o, "params") /\ IsDict(Get(o, "params"))
          /\ Has(Get(o, "params"), "name")
          /\ Truthy(Get(Get(o, "params"), "name"))
       \/ Has(o, "children") /\ IsList(Get(o, "children"))
          /\ \E k \in 1..Len(Get(o, "children")[2]) :
                NamePresent(Get(o, "children")[2][k])

\* C3: there is one pair per child, in the original order; a child with no
\* name in itself or in a descendant is named child_<i>, i its position
\* from zero, and only such a child is: a child in which a name is found
\* keeps the name the resolver returns.
C3_FallbackExactlyWhenNoName ==
    Listed =>
        /\ Len(named_children) = Len(Children)
        /\ \A k \in 1..Len(named_children) :
              /\ named_children[k][2] = Children[k]
              /\ named_children[k][1] =
                    IF NamePresent(Children[k])
                    THEN extract_name_from_object(Children[k])
                    ELSE Text(ChildPrefix \o Str(k - 1))

\* C5: a document without layout.children, or with a layout that is no
\* mapping or children that is no sequence, ends in failure and no output
\* file is written.
C5_NoOutputOnBadShape ==
    ~ValidDoc(data) => attempts = <<>> /\ ~Succeeded

\* the output directory and its files are as they were before the run
DirUntouched ==
    \E d \in InitialDirs : d.exists = dirExists /\ d.files = files

\* C6: for an input path that does not exist or a content that is not valid
\* JSON the function returns failure and the file system is unchanged.
C6_InvalidInputReturnsFailure ==
    (pc # "start" /\ (~input.exists \/ ~input.decodable \/ ~Load(input.toks).ok)) =>
        /\ pc \in {"returned", "exited"}
        /\ ~result
        /\ DirUntouched

\* C7: after a write has failed every later child is still processed and
\* its write attempted, and the function returns success.
C7_WriteFailureIsolated ==
    failed # {} =>
        /\ pc \in {"loop", "returned", "exited"}
        /\ pc \in {"returned", "exited"} =>
              result /\ Len(attempts) = Len(named_children)

\* C8: for every JSON content of the input file the program ends with exit
\* code 0 on success or with a message and exit code 1; no exception
\* escapes from main.
C8_NoExceptionEscapes ==
    (input.exists /\ input.decodable) =>
        /\ pc \notin {"raised", "crashed"}
        /\ pc = "exited" => exitCode = IF result THEN 0 ELSE 1

\* the last position whose child is written to the file of position k
LastWith(k) ==
    CHOOSE j \in k..Len(named_children) :
        /\ PathOf(j) = PathOf(k)
        /\ \A m \in (j + 1)..Len(named_children) : PathOf(m) # PathOf(k)

\* C9: the children are written in their order, one write per child; after
\* a run in which all writes succeed each file holds the last child with
\* its sanitised name, and there are as many files as distinct sanitised
\* names.
C9_LastWriteWins ==
    /\ \A k \in 1..Len(attempts) : attempts[k] = PathOf(k)
    /\ pc = "loop" => Len(attempts) = idx - 1
    /\ (Succeeded /\ failed = {}) =>
          /\ Len(attempts) = Len(named_children)
          /\ \A k \in 1..Len(named_children) :
                RoundTrip(PathOf(k), named_children[LastWith(k)][2])
          /\ Cardinality(Produced)
                = Cardinality({SafeName(named_children[k][1]).text :
                                  k \in 1..Len(named_children)})

C9_Witness ==
    /\ Succeeded /\ failed = {} /\ ValidDoc(data)
    /\ Len(named_children) = 2
    /\ named_children[1][1] = Text(ChildPrefix \o <<"1">>)
    /\ named_children[2] = <<FallbackName(1), Num(7)>>
    /\ named_children[1][2] # named_children[2][2]
    /\ Cardinality(Produced) = 1
    /\ RoundTrip(PathOf(1), Num(7))

\* p is an entry of the output directory itself, named <token>.json with a
\* non-empty token of alphanumeric, hyphen and underscore characters
SafeEntry(p) ==
    /\ Len(p) = Len(OutDir) + 1
    /\ SubSeq(p, 1, Len(OutDir)) = OutDir
    /\ LET f == p[Len(p)]
           n == Len(f) - Len(JsonSuffix)
       IN /\ n >= 1
          /\ SubSeq(f, n + 1, Len(f)) = JsonSuffix
          /\ \A k \in 1..n : SafeChar(f[k])

\* C10: every file written or attempted is such an entry of the output
\* directory, and no file outside the output directory is created or
\* overwritten.
C10_WritesStayInOutputDir ==
    /\ \A k \in 1..Len(attempts) : SafeEntry(attempts[k])
    /\ \A p \in DOMAIN files :
          \/ SafeEntry(p)
          \/ p = OutsidePath /\ files[p] = StaleText

C10_Witness ==
    /\ \E k \in 1..Len(attempts) :
          /\ named_children[k][1] = Text(<<".", ".", "/", "x">>)
          /\ attempts[k] = OutDir \o << <<"x">> \o JsonSuffix >>
          /\ attempts[k] \in DOMAIN files
    /\ OutsidePath \in DOMAIN files

====
